---- MODULE Spec2Model ----
(***************************************************************************)
(* Exotik Dices: the face-reference resolver (resolveFace,                 *)
(* wouldCreateLoop), the filesystem -> DB-cache reconciler                 *)
(* (syncDiceFromFilesystem) with its callers, the configuration window    *)
(* (ExotikDiceConfig: save and delete), the ZIP import (importDice) and    *)
(* the Dice So Nice integration (the wrapper of DiceFactory.create).       *)
(*                                                                         *)
(* Conventions.  A JavaScript value that may be null/undefined is modelled *)
(* as a sequence of length at most one: Null is <<>> and the value v is    *)
(* <<v>>.  Face indices are 0-based as in the source; the TLA+ sequence    *)
(* that holds a faceMap is 1-based, so face i is faceMap[i + 1].  A face   *)
(* object returned by resolveFace is identified by its index.              *)
(***************************************************************************)
EXTENDS Integers, Sequences, FiniteSets, TLC

Null == <<>>
Some(v) == <<v>>

(* ---------------- bounds ---------------- *)

\* longest face sequence explored by the resolver specification
MaxFaces == 3

\* randomID() is called at most this many times in a behaviour
MaxIds == 3

\* the user acts (changes a dice folder, submits the editor form, deletes a
\* die) at most this many times in a behaviour
MaxEdits == 2

(***************************************************************************)
(* Variables of the resolver specification                                 *)
(***************************************************************************)
VARIABLES
    faceMap,    \* the face sequence handed to resolveFace / wouldCreateLoop
    lastCall    \* the last call made on faceMap and what it returned

faceVars == <<faceMap, lastCall>>

(***************************************************************************)
(* Variables of the program specification                                  *)
(***************************************************************************)
VARIABLES
    fs,               \* the dice folders on disk: scan directory -> content
    cache,            \* the world setting "diceDefinitions" (the DB cache)
    nextId,           \* number of ids foundry.utils.randomID() has handed out
    diceDefinitions,  \* _diceDefinitions: denomination -> definition
    terms,            \* the keys of CONFIG.Dice.terms
    ekdDiceTypes,     \* _ekdDiceTypes
    sync,             \* the running call of syncDiceFromFilesystem and its locals
    prevRun,          \* what the previous sync returned, while the user did nothing since its call
    quiet,            \* the user did nothing since the running sync was called
    edits,            \* number of user actions so far (folder changes, editor submits, deletes)
    editor            \* the configuration window: the die it handled, whether that
                      \* die is still open (_editingDice), and what the step notified

(***************************************************************************)
(* Variables of the specifications of the 3D dice, the import dialog and   *)
(* overlapping reconciler runs, and the record of what the user did         *)
(***************************************************************************)
VARIABLES
    ledger,           \* history: the ids of the dice saved through the editor and not
                      \* deleted since, and the dice (id and slug) deleted in the window
    dsn,              \* the Dice So Nice integration
    importer,         \* the import dialog: the archive picked and what was notified
    sync2             \* a second call of syncDiceFromFilesystem running beside the first

otherVars == <<dsn, importer, sync2>>
auxVars == <<ledger, dsn, importer, sync2>>

progVars == <<fs, cache, nextId, diceDefinitions, terms, ekdDiceTypes, sync, prevRun,
              quiet, edits, editor, ledger, dsn, importer, sync2>>

vars == <<faceMap, lastCall, fs, cache, nextId, diceDefinitions, terms, ekdDiceTypes,
          sync, prevRun, quiet, edits, editor, ledger, dsn, importer, sync2>>

NoLedger == [saved |-> {}, deleted |-> {}]
\* no 3D die created yet; the renderer not ready, DiceFactory.create as shipped
NoCreation == [type |-> "", owned |-> FALSE, system |-> ""]
DsnOff == [pc |-> "off", patched |-> FALSE, created |-> NoCreation]
\* no archive picked, nothing notified
ImporterClosed == [zip |-> [readable |-> FALSE, entries |-> <<>>], outcome |-> "none"]
Sync2Idle ==
    [pc |-> "idle", caller |-> "refresh", read |-> <<>>, fsDefinitions |-> <<>>,
     warnings |-> <<>>, cachedDefs |-> <<>>, changed |-> FALSE, definitions |-> <<>>]

AuxAtRest ==
    /\ ledger = NoLedger
    /\ dsn = DsnOff
    /\ importer = ImporterClosed
    /\ sync2 = Sync2Idle

(***************************************************************************)
(* Faces.  refFace is Null or Some(index); a slot of the array that holds  *)
(* no object (undefined / null entry) is a face with missing = TRUE.       *)
(***************************************************************************)
\* An asset path: Null base = the path as written (relative or empty);
\* Some(dir) = a path below the dice folder dir.
NoPath == [base |-> Null, file |-> ""]
RelPath(f) == [base |-> Null, file |-> f]

FaceT(ref, tex) == [refFace |-> ref, missing |-> FALSE, texture |-> tex]
Face(ref) == FaceT(ref, NoPath)
MissingFace == [refFace |-> Null, missing |-> TRUE, texture |-> NoPath]

\* faceMap[i] of the source for an arbitrary integer i: undefined outside the array
FaceAt(fm, i) == IF i >= 0 /\ i < Len(fm) THEN fm[i + 1] ELSE MissingFace

\* the reference values a face of an n-face map may carry: none, or any
\* integer from one below to one above the valid range
RefValues(n) == {Null} \cup {Some(k) : k \in -1..n}

FaceValues(n) == {Face(r) : r \in RefValues(n)} \cup {MissingFace}

FaceMaps == UNION {[1..n -> FaceValues(n)] : n \in 1..MaxFaces}

(***************************************************************************)
(* resolveFace(faceMap, index, visited = new Set())                        *)
(* The run also counts the references it followed (hops).                  *)
(***************************************************************************)
RECURSIVE ResolveRunOneHop(_, _, _, _)
ResolveRunOneHop(fm, index, visited, hops) ==
    IF index = Null \/ (index # Null /\ (index[1] < 0 \/ index[1] >= Len(fm)))
    THEN [face |-> Null, hops |-> hops]
    ELSE LET face == fm[index[1] + 1] IN
         IF face.missing THEN [face |-> Null, hops |-> hops]
         ELSE IF face.refFace = Null \/ hops >= 1 THEN [face |-> index, hops |-> hops]
         ELSE ResolveRunOneHop(fm, face.refFace, visited \cup {index[1]}, hops + 1)

RECURSIVE ResolveRunRevisit(_, _, _, _)
ResolveRunRevisit(fm, index, visited, hops) ==
    IF index = Null \/ (index # Null /\ (index[1] < 0 \/ index[1] >= Len(fm)))
    THEN [face |-> Null, hops |-> hops]
    ELSE LET face == fm[index[1] + 1] IN
         IF face.missing THEN [face |-> Null, hops |-> hops]
         ELSE IF face.refFace = Null THEN [face |-> index, hops |-> hops]
         ELSE IF index[1] \in visited THEN [face |-> index, hops |-> hops]
         ELSE ResolveRunRevisit(fm, face.refFace, visited \cup {index[1]}, hops + 1)

\* an index outside the array is answered with the first face
RECURSIVE ResolveRunFirstFace(_, _, _, _)
ResolveRunFirstFace(fm, index, visited, hops) ==
    IF index = Null THEN [face |-> Null, hops |-> hops]
    ELSE IF index[1] < 0 \/ index[1] >= Len(fm) THEN [face |-> Some(0), hops |-> hops]
    ELSE LET face == fm[index[1] + 1] IN
         IF face.missing THEN [face |-> Null, hops |-> hops]
         ELSE IF face.refFace = Null THEN [face |-> index, hops |-> hops]
         ELSE IF index[1] \in visited THEN [face |-> Null, hops |-> hops]
         ELSE ResolveRunFirstFace(fm, face.refFace, visited \cup {index[1]}, hops + 1)

\* the walk without the visited set, cut off after 2 * N + 1 references
RECURSIVE ResolveRunNoVisited(_, _, _, _)
ResolveRunNoVisited(fm, index, visited, hops) ==
    IF index = Null \/ (index # Null /\ (index[1] < 0 \/ index[1] >= Len(fm)))
    THEN [face |-> Null, hops |-> hops]
    ELSE LET face == fm[index[1] + 1] IN
         IF face.missing THEN [face |-> Null, hops |-> hops]
         ELSE IF face.refFace = Null THEN [face |-> index, hops |-> hops]
         ELSE IF hops > 2 * Len(fm) THEN [face |-> Null, hops |-> hops]
         ELSE ResolveRunNoVisited(fm, face.refFace, visited \cup {index[1]}, hops + 1)

RECURSIVE ResolveRun(_, _, _, _)
ResolveRun(fm, index, visited, hops) ==
    IF index = Null \/ (index # Null /\ (index[1] < 0 \/ index[1] >= Len(fm)))
    THEN [face |-> Null, hops |-> hops]
    ELSE LET face == fm[index[1] + 1] IN
         IF face.missing THEN [face |-> Null, hops |-> hops]
         ELSE IF face.refFace = Null THEN [face |-> index, hops |-> hops]
         ELSE IF index[1] \in visited THEN [face |-> Null, hops |-> hops]
         ELSE ResolveRun(fm, face.refFace, visited \cup {index[1]}, hops + 1)

resolveFace(fm, index) == ResolveRun(fm, index, {}, 0).face

(***************************************************************************)
(* wouldCreateLoop(faceMap, faceCount, fromIdx, toIdx): the while loop,    *)
(* one iteration per unfolding; current is the loop variable.              *)
(***************************************************************************)
LoopWalkDirectOnly(fm, faceCount, fromIdx, current, visited) ==
    IF current = Null THEN FALSE
    ELSE IF current = fromIdx THEN TRUE
    ELSE IF current[1] \in visited THEN FALSE
    ELSE IF current[1] < 0 \/ current[1] >= faceCount THEN FALSE
    ELSE FaceAt(fm, current[1]).refFace = fromIdx /\ fromIdx # Null

LoopWalkNever(fm, faceCount, fromIdx, current, visited) == FALSE

RECURSIVE LoopWalk(_, _, _, _, _)
LoopWalk(fm, faceCount, fromIdx, current, visited) ==
    IF current = Null THEN FALSE
    ELSE IF current = fromIdx THEN TRUE
    ELSE IF current[1] \in visited THEN FALSE
    ELSE IF current[1] < 0 \/ current[1] >= faceCount THEN FALSE
    ELSE LoopWalk(fm, faceCount, fromIdx,
                  FaceAt(fm, current[1]).refFace, visited \cup {current[1]})

wouldCreateLoop(fm, faceCount, fromIdx, toIdx) ==
    LoopWalk(fm, faceCount, fromIdx, toIdx, {})


(***************************************************************************)
(* Dice definitions.  A definition is a JavaScript object: its keys in     *)
(* insertion order plus the value of each key.  An optional value is Null  *)
(* (undefined) or Some(v); a key can be present with the value undefined.  *)
(***************************************************************************)
MkDef(keys, id, name, slug, denomination, faces, geometry, fm) ==
    [keys |-> keys, id |-> id, name |-> name, slug |-> slug,
     denomination |-> denomination, faces |-> faces, geometry |-> geometry,
     faceMap |-> fm]

HasKey(def, k) == \E i \in 1..Len(def.keys) : def.keys[i] = k

\* obj[k] = v : an existing key keeps its place, a new key goes last
KeysWith(def, k) == IF HasKey(def, k) THEN def.keys ELSE Append(def.keys, k)

SetId(def, v) == [def EXCEPT !.id = v, !.keys = KeysWith(def, "id")]
SetSlug(def, v) == [def EXCEPT !.slug = v, !.keys = KeysWith(def, "slug")]

\* JavaScript truthiness of d.slug and d.id
Truthy(opt) == opt # Null /\ opt[1] # <<>>

IsUndefined(def, k) ==
    CASE k = "id" -> def.id = Null
      [] k = "slug" -> def.slug = Null
      [] k = "faces" -> def.faces = Null
      [] k = "geometry" -> def.geometry = Null
      [] OTHER -> FALSE

DefinedKey(def, k) == ~IsUndefined(def, k)

\* JSON.stringify(def): the keys in order with their values; a key whose
\* value is undefined is left out
Stringify(def) ==
    [def EXCEPT !.keys = SelectSeq(def.keys, LAMBDA k : DefinedKey(def, k))]

(***************************************************************************)
(* nameToSlug(name).  A name and a slug are sequences of characters.       *)
(***************************************************************************)
IsSpace(c) == c = " "

\* the characters that occur in the names of this model
Lower(c) ==
    CASE c = "A" -> "a"
      [] c = "B" -> "b"
      [] c = "M" -> "m"
      [] c = "U" -> "u"
      [] c = "Y" -> "y"
      [] OTHER -> c

\* [a-z0-9]
IsSlugChar(c) == c \in {"a", "b", "m", "u", "0", "1"}

RECURSIVE TrimLeft(_)
TrimLeft(str) ==
    IF str # <<>> /\ IsSpace(Head(str)) THEN TrimLeft(Tail(str)) ELSE str

RECURSIVE TrimRight(_)
TrimRight(str) ==
    IF str # <<>> /\ IsSpace(str[Len(str)])
    THEN TrimRight(SubSeq(str, 1, Len(str) - 1)) ELSE str

Trim(str) == TrimRight(TrimLeft(str))

ToLowerCase(str) == [i \in 1..Len(str) |-> Lower(str[i])]

\* .replace(/[^a-z0-9]+/g, "_") : every maximal run of other characters becomes one "_"
RECURSIVE ReplaceRuns(_, _)
ReplaceRuns(str, inRun) ==
    IF str = <<>> THEN <<>>
    ELSE IF IsSlugChar(Head(str)) THEN <<Head(str)>> \o ReplaceRuns(Tail(str), FALSE)
    ELSE IF inRun THEN ReplaceRuns(Tail(str), TRUE)
    ELSE <<"_">> \o ReplaceRuns(Tail(str), TRUE)

\* .replace(/^_|_$/g, "") : one leading and one trailing "_" are removed
StripUnderscores(str) ==
    LET noLead == IF str # <<>> /\ Head(str) = "_" THEN Tail(str) ELSE str
    IN IF noLead # <<>> /\ noLead[Len(noLead)] = "_"
       THEN SubSeq(noLead, 1, Len(noLead) - 1) ELSE noLead

nameToSlug(name) == StripUnderscores(ReplaceRuns(ToLowerCase(Trim(name)), FALSE))

(***************************************************************************)
(* The dice folders.  dirsToScan = [DICES_PATH, getUserDicePath()]; each   *)
(* root lists its subdirectories in a fixed order.                         *)
(***************************************************************************)
ModuleRoot == "module"
UserRoot == "user"
dirsToScan == <<ModuleRoot, UserRoot>>

Dir(root, slug) == [root |-> root, slug |-> slug]

SlugA == <<"a">>
SlugB == <<"b">>

\* FP.browse("data", scanPath).dirs of each root, were every folder present
RootListing(root) ==
    IF root = ModuleRoot THEN <<Dir(ModuleRoot, SlugB)>>
    ELSE <<Dir(UserRoot, SlugA), Dir(UserRoot, SlugB)>>

AllDirs == {Dir(ModuleRoot, SlugB), Dir(UserRoot, SlugA), Dir(UserRoot, SlugB)}

\* the content of a scan directory: no such folder, a folder without
\* dice.json, or a folder whose dice.json holds the object def
NoDef == MkDef(<<>>, Null, <<>>, Null, "", Null, Null, <<>>)
Absent == [kind |-> "absent", def |-> NoDef]
NoFile == [kind |-> "nofile", def |-> NoDef]
Json(def) == [kind |-> "json", def |-> def]

\* the faces of an exported dice.json: a concrete face with a relative
\* texture path, a face that refers to it, and two plain faces
FileFaceMap == <<FaceT(Null, RelPath("t.png")), Face(Some(0)), Face(Null), Face(Null)>>

\* the faces of a dice.json written by hand: three faces, no "faces" entry
HandFaceMap == <<FaceT(Null, RelPath("t.png")), Face(Some(0)), Face(Null)>>

\* the name written in the dice.json of a folder
FileName(dir) ==
    IF dir.root = ModuleRoot THEN <<"M">> \o dir.slug
    ELSE IF dir.slug = SlugA THEN <<"A">>
    ELSE <<"U">> \o dir.slug

\* a dice.json written by hand (no id, no slug), or one exported from a
\* cache entry (all the keys of an editor definition, id first)
FileDef(dir, denom, id) ==
    IF id = Null
    THEN MkDef(<<"name", "denomination", "faceMap">>,
               Null, FileName(dir), Null, denom, Null, Null, HandFaceMap)
    ELSE MkDef(<<"id", "name", "slug", "denomination", "faces", "geometry", "faceMap">>,
               id, FileName(dir), Some(nameToSlug(FileName(dir))), denom,
               Some(Len(FileFaceMap)), Some("standard"), FileFaceMap)

FileId == <<"f", 1>>
FileDenoms == {"x", "y"}

\* a dice.json that cannot be fetched or parsed
Garbage == [kind |-> "garbage", def |-> NoDef]

\* a dice.json that cannot be read, one without denomination, one written
\* by hand (it claims "d", a denomination of the host), and exported ones
FileContents(dir) ==
    {Absent, NoFile, Garbage, Json(FileDef(dir, "", Null)), Json(FileDef(dir, "d", Null))}
    \cup {Json(FileDef(dir, den, Some(FileId))) : den \in FileDenoms}

(***************************************************************************)
(* readDiceJson(jsonPath, folderPath)                                      *)
(***************************************************************************)
\* a non-empty path that does not start with "modules/" or MODULE_ID is
\* taken as relative to the folder
ResolvePath(tex, dir) ==
    IF tex.file # "" /\ tex.base = Null THEN [base |-> Some(dir), file |-> tex.file]
    ELSE tex

ResolveFacePaths(fm, dir) ==
    [i \in 1..Len(fm) |-> [fm[i] EXCEPT !.texture = ResolvePath(fm[i].texture, dir)]]

readDiceJson(file, dir) ==
    IF file.kind # "json" THEN Null
    ELSE IF file.def.name = <<>> \/ file.def.denomination = ""
            \/ ~HasKey(file.def, "faceMap")
    THEN Null
    ELSE Some(SetSlug([file.def EXCEPT
                           !.faceMap = ResolveFacePaths(file.def.faceMap, dir)],
                      Some(dir.slug)))


(***************************************************************************)
(* syncDiceFromFilesystem: the scan (source lines 419-473)                 *)
(***************************************************************************)
\* result.dirs of one root; a root that cannot be browsed contributes nothing
ListRoot(f, root) == SelectSeq(RootListing(root), LAMBDA d : f[d].kind # "absent")

RECURSIVE AllSubDirsFrom(_, _)
AllSubDirsFrom(f, roots) ==
    IF roots = <<>> THEN <<>>
    ELSE ListRoot(f, Head(roots)) \o AllSubDirsFrom(f, Tail(roots))

AllSubDirs(f) == AllSubDirsFrom(f, dirsToScan)

\* a Map whose set keeps the value a key already has
MapSetKeepFirst(defs, def) ==
    IF \E i \in 1..Len(defs) : defs[i].slug = def.slug
    THEN defs
    ELSE Append(defs, def)

\* fsDefinitions.set(def.slug, def) on a Map kept as the sequence of its values
MapSet(defs, def) ==
    IF \E i \in 1..Len(defs) : defs[i].slug = def.slug
    THEN [i \in 1..Len(defs) |-> IF defs[i].slug = def.slug THEN def ELSE defs[i]]
    ELSE Append(defs, def)

\* [...fsDefinitions.values()].find(d => d.denomination === .. && d.slug !== ..)
ConflictingNone(defs, def) == <<>>

Conflicting(defs, def) ==
    SelectSeq(defs, LAMBDA d : d.denomination = def.denomination /\ d.slug # def.slug)

Warning(def, existing) ==
    [name |-> def.name, denom |-> def.denomination, existing |-> existing.name,
     slug |-> def.slug]

\* a scan that gives up at the first folder without a readable definition
RECURSIVE ScanFoldAborting(_, _, _)
ScanFoldAborting(f, dirs, acc) ==
    IF dirs = <<>> THEN acc
    ELSE LET dir == Head(dirs)
             read == IF f[dir].kind = "nofile" THEN Null ELSE readDiceJson(f[dir], dir)
         IN IF read = Null THEN acc
            ELSE LET def == read[1]
                     conflicting == Conflicting(acc.defs, def)
                 IN IF conflicting # <<>>
                    THEN ScanFoldAborting(f, Tail(dirs),
                                  [acc EXCEPT !.read = Append(@, def),
                                              !.warnings =
                                       Append(@, Warning(def, conflicting[1]))])
                    ELSE ScanFoldAborting(f, Tail(dirs),
                                  [acc EXCEPT !.read = Append(@, def),
                                              !.defs = MapSet(@, def)])

RECURSIVE ScanFold(_, _, _)
ScanFold(f, dirs, acc) ==
    IF dirs = <<>> THEN acc
    ELSE LET dir == Head(dirs)
             read == IF f[dir].kind = "nofile" THEN Null ELSE readDiceJson(f[dir], dir)
         IN IF read = Null THEN ScanFold(f, Tail(dirs), acc)
            ELSE LET def == read[1]
                     conflicting == Conflicting(acc.defs, def)
                 IN IF conflicting # <<>>
                    THEN ScanFold(f, Tail(dirs),
                                  [acc EXCEPT !.read = Append(@, def),
                                              !.warnings =
                                       Append(@, Warning(def, conflicting[1]))])
                    ELSE ScanFold(f, Tail(dirs),
                                  [acc EXCEPT !.read = Append(@, def),
                                              !.defs = MapSet(@, def)])

\* defs: the values of fsDefinitions in Map order; warnings: the conflicts
\* reported; read: every definition readDiceJson returned, in scan order
Scan(f) ==
    ScanFold(f, AllSubDirs(f), [defs |-> <<>>, warnings |-> <<>>, read |-> <<>>])

(***************************************************************************)
(* syncDiceFromFilesystem: the comparison with the DB cache (475-517)      *)
(***************************************************************************)
RandomId(n) == <<"r", n>>

\* cachedMap.get(slug): the Map is built from the entries with a truthy
\* slug, a later entry with the same slug replaces the earlier one
RECURSIVE CachedGet(_, _)
CachedGet(cachedDefs, slug) ==
    IF cachedDefs = <<>> THEN Null
    ELSE LET last == cachedDefs[Len(cachedDefs)] IN
         IF Truthy(last.slug) /\ last.slug = slug THEN Some(last)
         ELSE CachedGet(SubSeq(cachedDefs, 1, Len(cachedDefs) - 1), slug)

\* loop 1: additions / modifications; the definitions are updated in place
RegenerateId(fsDef, cached, n) ==
    [def |-> SetId(fsDef, Some(RandomId(n + 1))), used |-> 1,
     changed |-> TRUE]

KeepFileId(fsDef, cached, n) ==
    [def |-> fsDef, used |-> 0,
     changed |-> Stringify(cached) # Stringify(fsDef)]

PreserveId(fsDef, cached, n) ==
    [def |-> SetId(fsDef, cached.id), used |-> 0,
     changed |-> Stringify(cached) # Stringify(SetId(fsDef, cached.id))]

NewDice(fsDef, n) ==
    [def |-> IF fsDef.id = Null THEN SetId(fsDef, Some(RandomId(n + 1))) ELSE fsDef,
     used |-> IF fsDef.id = Null THEN 1 ELSE 0,
     changed |-> TRUE]

RECURSIVE CompareFold(_, _, _)
CompareFold(fsDefs, cachedDefs, acc) ==
    IF fsDefs = <<>> THEN acc
    ELSE LET fsDef == Head(fsDefs)
             cached == CachedGet(cachedDefs, fsDef.slug)
             step == IF cached = Null THEN NewDice(fsDef, acc.nextId)
                     ELSE PreserveId(fsDef, cached[1], acc.nextId)
         IN CompareFold(Tail(fsDefs), cachedDefs,
                        [defs |-> Append(acc.defs, step.def),
                         nextId |-> acc.nextId + step.used,
                         changed |-> acc.changed \/ step.changed])

\* loop 2: removals (in the cache but not on the filesystem)
NoRemoval(fsDefs, cachedDefs) == FALSE

HasRemoval(fsDefs, cachedDefs) ==
    \E i \in 1..Len(cachedDefs) :
        /\ Truthy(cachedDefs[i].slug)
        /\ ~\E j \in 1..Len(fsDefs) : fsDefs[j].slug = cachedDefs[i].slug

\* "Ensure every definition has an id"
RECURSIVE EnsureIds(_, _)
EnsureIds(defs, acc) ==
    IF defs = <<>> THEN acc
    ELSE IF Head(defs).id = Null
    THEN EnsureIds(Tail(defs),
                   [defs |-> Append(acc.defs, SetId(Head(defs), Some(RandomId(acc.nextId + 1)))),
                    nextId |-> acc.nextId + 1])
    ELSE EnsureIds(Tail(defs), [acc EXCEPT !.defs = Append(@, Head(defs))])

\* lines 475-517 as one computation: the definitions with their ids, the
\* verdict, and the number of random ids handed out
Compare(fsDefs, cachedDefs, n) ==
    LET loop1 == CompareFold(fsDefs, cachedDefs,
                             [defs |-> <<>>, nextId |-> n, changed |-> FALSE])
        changed == loop1.changed \/ HasRemoval(fsDefs, cachedDefs)
        ensured == IF changed THEN EnsureIds(loop1.defs, [defs |-> <<>>, nextId |-> loop1.nextId])
                   ELSE [defs |-> loop1.defs, nextId |-> loop1.nextId]
    IN [changed |-> changed, definitions |-> ensured.defs, nextId |-> ensured.nextId]

(***************************************************************************)
(* registerDiceOnTheFly(definitions) and the "init" hook                   *)
(***************************************************************************)
\* keys of CONFIG.Dice.terms: the class name ExotikDice_<denom> and the denomination
ClassKey(denom) == <<"class", denom>>
DenomKey(denom) == <<"denom", denom>>

\* the terms the host registers itself
HostTerms == {DenomKey("d"), DenomKey("c"), DenomKey("f")}

RECURSIVE RegistryOf(_, _)
RegistryOf(defs, acc) ==
    IF defs = <<>> THEN acc
    ELSE RegistryOf(Tail(defs),
                    [d \in DOMAIN acc \cup {Head(defs).denomination} |->
                        IF d = Head(defs).denomination THEN Head(defs) ELSE acc[d]])

EmptyRegistry == [d \in {} |-> NoDef]

DenomsOf(defs) == {defs[i].denomination : i \in 1..Len(defs)}

TermKeys(denoms) == {ClassKey(d) : d \in denoms} \cup {DenomKey(d) : d \in denoms}

\* registration that leaves the entries of dropped denominations in place
registerWithoutCleanup(definitions) ==
    /\ diceDefinitions' = RegistryOf(definitions, EmptyRegistry)
    /\ terms' = terms \cup TermKeys(DenomsOf(definitions))
    /\ ekdDiceTypes' = ekdDiceTypes \cup DenomsOf(definitions)

registerDiceOnTheFly(definitions) ==
    LET oldDenoms == DOMAIN diceDefinitions \ DenomsOf(definitions) IN
    /\ diceDefinitions' = RegistryOf(definitions, EmptyRegistry)
    /\ terms' = (terms \cup TermKeys(DenomsOf(definitions))) \ TermKeys(oldDenoms)
    /\ ekdDiceTypes' = (ekdDiceTypes \cup DenomsOf(definitions)) \ oldDenoms

(***************************************************************************)
(* Resolver specification: a face map is drawn, then calls are made on it. *)
(***************************************************************************)
NoCall == [op |-> "none", index |-> Null, from |-> Null, to |-> Null,
           face |-> Null, hops |-> 0, loop |-> FALSE]

\* argument values: null, and every integer from one below to one above the range
IndexArgs(fm) == {Null} \cup {Some(k) : k \in -1..Len(fm)}

CallResolveFace(index) ==
    /\ lastCall' = [NoCall EXCEPT !.op = "resolveFace", !.index = index,
                                  !.face = ResolveRun(faceMap, index, {}, 0).face,
                                  !.hops = ResolveRun(faceMap, index, {}, 0).hops]
    /\ UNCHANGED faceMap
    /\ UNCHANGED progVars

CallWouldCreateLoop(from, to) ==
    /\ lastCall' = [NoCall EXCEPT !.op = "wouldCreateLoop", !.from = from, !.to = to,
                                  !.loop = wouldCreateLoop(faceMap, Len(faceMap), from, to)]
    /\ UNCHANGED faceMap
    /\ UNCHANGED progVars

\* the program variables stay at rest in the resolver specification
ProgramAtRest ==
    /\ fs = [d \in AllDirs |-> Absent]
    /\ edits = 0
    /\ cache = <<>>
    /\ nextId = 0
    /\ diceDefinitions = EmptyRegistry
    /\ terms = HostTerms
    /\ ekdDiceTypes = {}
    /\ sync = [pc |-> "idle", caller |-> "ready", read |-> <<>>,
               fsDefinitions |-> <<>>, warnings |-> <<>>, cachedDefs |-> <<>>,
               changed |-> FALSE, definitions |-> <<>>]
    /\ prevRun = [valid |-> FALSE, changed |-> FALSE, definitions |-> <<>>]
    /\ quiet = FALSE
    /\ editor = [die |-> [id |-> Null, slug |-> Null], open |-> FALSE,
                 outcome |-> "none"]
    /\ AuxAtRest

FacesInit ==
    /\ faceMap \in FaceMaps
    /\ lastCall = NoCall
    /\ ProgramAtRest

FacesNext ==
    \/ \E index \in IndexArgs(faceMap) : CallResolveFace(index)
    \/ \E from \in IndexArgs(faceMap) \ {Null}, to \in IndexArgs(faceMap) :
           CallWouldCreateLoop(from, to)

SpecFaces == FacesInit /\ [][FacesNext]_vars

(***************************************************************************)
(* ExotikDiceConfig._updateObject: the editor's save                       *)
(***************************************************************************)
\* what the form can hold: names, denominations and face maps
EditorNames == {<<"a">>, <<" ", "A">>, <<"a", "!">>, <<"!">>, <<" ">>}
EditorDenoms == {<<"x">>, <<"Y">>, <<"d">>, <<"x", "y">>, <<" ">>}
EditorFaceMaps ==
    {<<Face(Null), Face(Some(0)), Face(Null), Face(Null)>>,
     <<Face(Some(1)), Face(Some(0)), Face(Null), Face(Null)>>,
     <<Face(Null), Face(Some(4)), Face(Null), Face(Null)>>}

\* _editingDice: a fresh die (editDice(null) / _onAddDice) or a copy of a cached one
NewDie(n) == [id |-> Some(RandomId(n + 1)), slug |-> Some(<<>>)]
EditingOf(def) == [id |-> def.id, slug |-> def.slug]

NameConflict(currentDefs, nameTrimmed, editing) ==
    \E i \in 1..Len(currentDefs) :
        /\ ToLowerCase(Trim(currentDefs[i].name)) = ToLowerCase(nameTrimmed)
        /\ currentDefs[i].id # editing.id

\* every key of CONFIG.Dice.terms and every DENOMINATION of a registered
\* class, except the denominations of the cached dice
ReservedDenoms(currentDefs) ==
    {k[2] : k \in terms} \ DenomsOf(currentDefs)

DenomConflict(currentDefs, denom, editing) ==
    \E i \in 1..Len(currentDefs) :
        /\ currentDefs[i].denomination = denom
        /\ currentDefs[i].id # editing.id

\* "Build faceMap": a face that carries a reference loses its own assets
BuildFaceMap(rawMap) ==
    [i \in 1..Len(rawMap) |->
        FaceT(rawMap[i].refFace,
              IF rawMap[i].refFace # Null THEN NoPath ELSE rawMap[i].texture)]

\* "Validate no loops"
AllRefsResolveUnchecked(fm) == TRUE

AllRefsResolve(fm) ==
    \A i \in 0..(Len(fm) - 1) :
        fm[i + 1].refFace # Null => resolveFace(fm, Some(i)) # Null

EditorKeys == <<"id", "name", "slug", "denomination", "faces", "geometry", "faceMap">>

DiceDefOfReslug(editing, nameTrimmed, denom, fm) ==
    MkDef(EditorKeys, editing.id, nameTrimmed, Some(nameToSlug(nameTrimmed)),
          denom, Some(Len(fm)), Some("standard"), fm)

DiceDefOf(editing, nameTrimmed, denom, fm) ==
    MkDef(EditorKeys, editing.id, nameTrimmed,
          IF Truthy(editing.slug) THEN editing.slug ELSE Some(nameToSlug(nameTrimmed)),
          denom, Some(Len(fm)), Some("standard"), fm)

\* currentDefs.findIndex(d => d.id === diceDef.id), 0 when there is none
RECURSIVE FindIndexFrom(_, _, _)
FindIndexFrom(defs, id, i) ==
    IF i > Len(defs) THEN 0
    ELSE IF defs[i].id = id THEN i
    ELSE FindIndexFrom(defs, id, i + 1)

FindIndexById(defs, id) == FindIndexFrom(defs, id, 1)

\* ensureDiceFolders(slug): the dice folder below the user path exists afterwards
EnsureDiceFolders(f, slug) ==
    [d \in AllDirs |->
        IF d.root = UserRoot /\ Some(d.slug) = slug /\ f[d].kind = "absent"
        THEN NoFile ELSE f[d]]

\* the checks of _updateObject in their order: the key of the error that is
\* notified before "Validation failed" is thrown, "" when every check passes
ValidationError(currentDefs, editing, name, denomination, rawMap) ==
    LET nameTrimmed == Trim(name)
        denom == ToLowerCase(Trim(denomination))
    IN IF nameTrimmed = <<>> THEN "NameRequired"
       ELSE IF NameConflict(currentDefs, nameTrimmed, editing) THEN "NameConflict"
       ELSE IF denom = <<>> THEN "DenominationRequired"
       ELSE IF Len(denom) # 1 THEN "DenominationLength"
       ELSE IF denom[1] \in ReservedDenoms(currentDefs) THEN "DenominationReserved"
       ELSE IF DenomConflict(currentDefs, denom[1], editing) THEN "DenominationConflict"
       ELSE IF ~AllRefsResolve(BuildFaceMap(rawMap)) THEN "FaceRefLoop"
       ELSE ""

ValidForm(currentDefs, editing, name, denomination, rawMap) ==
    ValidationError(currentDefs, editing, name, denomination, rawMap) = ""

\* no completed sync is remembered
NoRun == [valid |-> FALSE, changed |-> FALSE, definitions |-> <<>>]

\* the configuration window before any use
NoDie == [id |-> Null, slug |-> Null]
EditorClosed == [die |-> NoDie, open |-> FALSE, outcome |-> "none"]

\* a step outside the window: an open die stays open, the notification of
\* the last submit is over
Settled(e) == IF e.open THEN [e EXCEPT !.outcome = "none"] ELSE EditorClosed

\* the die the window opens for row target of the list: a new die for
\* target = 0, else defs.find(d => d.id === id) with the id of that row
Opened(target) ==
    IF target = 0 THEN NewDie(nextId)
    ELSE EditingOf(cache[FindIndexById(cache, cache[target].id)])

\* the form is submitted and a check fails: the error is notified and
\* "Validation failed" is thrown before anything is written
EditorRejectClosing(target, name, denomination, rawMap) ==
    LET editing == Opened(target) IN
    /\ sync.pc # "returned"
    /\ edits < MaxEdits
    /\ target = 0 => nextId < MaxIds
    /\ ~ValidForm(cache, editing, name, denomination, rawMap)
    /\ editor' = [die |-> editing, open |-> FALSE,
                  outcome |-> ValidationError(cache, editing, name, denomination, rawMap)]
    /\ cache' = <<>>
    /\ nextId' = IF target = 0 THEN nextId + 1 ELSE nextId
    /\ edits' = edits + 1
    /\ UNCHANGED <<fs, diceDefinitions, terms, ekdDiceTypes, sync, prevRun, quiet>>
    /\ UNCHANGED faceVars
    /\ UNCHANGED auxVars

EditorReject(target, name, denomination, rawMap) ==
    LET editing == Opened(target) IN
    /\ sync.pc # "returned"
    /\ edits < MaxEdits
    /\ target = 0 => nextId < MaxIds
    /\ ~ValidForm(cache, editing, name, denomination, rawMap)
    /\ editor' = [die |-> editing, open |-> TRUE,
                  outcome |-> ValidationError(cache, editing, name, denomination, rawMap)]
    /\ nextId' = IF target = 0 THEN nextId + 1 ELSE nextId
    /\ edits' = edits + 1
    /\ UNCHANGED <<fs, cache, diceDefinitions, terms, ekdDiceTypes, sync, prevRun, quiet>>
    /\ UNCHANGED faceVars
    /\ UNCHANGED auxVars

\* "Dirty check": the submitted die equals its cached entry; nothing is
\* written and the editor goes back to the list
EditorNoChanges(target, name, denomination, rawMap) ==
    LET currentDefs == cache
        editing == Opened(target)
        diceDef == DiceDefOf(editing, Trim(name), ToLowerCase(Trim(denomination))[1],
                             BuildFaceMap(rawMap))
        existingIdx == FindIndexById(currentDefs, diceDef.id)
    IN /\ sync.pc # "returned"
       /\ edits < MaxEdits
       /\ target # 0
       /\ ValidForm(currentDefs, editing, name, denomination, rawMap)
       /\ existingIdx > 0 /\ Stringify(currentDefs[existingIdx]) = Stringify(diceDef)
       /\ editor' = [die |-> editing, open |-> FALSE, outcome |-> "NoChanges"]
       /\ edits' = edits + 1
       /\ UNCHANGED <<fs, cache, nextId, diceDefinitions, terms, ekdDiceTypes, sync,
                      prevRun, quiet>>
       /\ UNCHANGED faceVars
       /\ UNCHANGED auxVars

\* target = 0 edits a new die, target = i the die of row i
EditorSave(target, name, denomination, rawMap) ==
    LET currentDefs == cache
        editing == Opened(target)
        diceDef == DiceDefOf(editing, Trim(name), ToLowerCase(Trim(denomination))[1],
                             BuildFaceMap(rawMap))
        existingIdx == FindIndexById(currentDefs, diceDef.id)
    IN /\ sync.pc # "returned"
       /\ edits < MaxEdits
       /\ target = 0 => nextId < MaxIds
       /\ ValidForm(currentDefs, editing, name, denomination, rawMap)
       \* "Dirty check": an unchanged die is not saved
       /\ ~(existingIdx > 0 /\ Stringify(currentDefs[existingIdx]) = Stringify(diceDef))
       /\ fs' = IF Truthy(diceDef.slug) THEN EnsureDiceFolders(fs, diceDef.slug) ELSE fs
       /\ cache' = IF existingIdx > 0
                   THEN [currentDefs EXCEPT ![existingIdx] = diceDef]
                   ELSE Append(currentDefs, diceDef)
       /\ nextId' = IF target = 0 THEN nextId + 1 ELSE nextId
       /\ editor' = [die |-> editing, open |-> FALSE, outcome |-> "DiceSaved"]
       /\ quiet' = FALSE
       /\ prevRun' = NoRun
       /\ edits' = edits + 1
       /\ ledger' = [ledger EXCEPT !.saved = @ \cup {diceDef.id}]
       /\ UNCHANGED <<diceDefinitions, terms, ekdDiceTypes, sync>>
       /\ UNCHANGED faceVars
       /\ UNCHANGED otherVars

(***************************************************************************)
(* ExotikDiceConfig._onDeleteDice, after the user has confirmed            *)
(***************************************************************************)
\* deleteFolderRecursive on <user path>/<slug> and on <module path>/<slug>:
\* a folder is gone afterwards when the server of its root carries out a
\* delete request; every failure is caught and logged
DeleteFolders(f, slug, deletable) ==
    [d \in AllDirs |->
        IF Some(d.slug) = slug /\ d.root \in deletable THEN Absent ELSE f[d]]

\* defs.filter(d => d.id !== id)
WithoutId(defs, id) == SelectSeq(defs, LAMBDA d : d.id # id)

EditorDeleteRestoring(target, deletable) ==
    LET dice == cache[FindIndexById(cache, cache[target].id)] IN
    /\ sync.pc # "returned"
    /\ edits < MaxEdits
    /\ cache' = IF Truthy(dice.slug) /\ deletable # {ModuleRoot, UserRoot}
                THEN cache ELSE WithoutId(cache, dice.id)
    /\ fs' = IF Truthy(dice.slug) THEN DeleteFolders(fs, dice.slug, deletable) ELSE fs
    /\ editor' = [die |-> EditingOf(dice), open |-> FALSE, outcome |-> "Deleted"]
    /\ quiet' = FALSE
    /\ prevRun' = NoRun
    /\ edits' = edits + 1
    /\ ledger' = [saved |-> ledger.saved \ {dice.id},
                  deleted |-> ledger.deleted \cup {EditingOf(dice)}]
    /\ UNCHANGED <<nextId, diceDefinitions, terms, ekdDiceTypes, sync>>
    /\ UNCHANGED faceVars
    /\ UNCHANGED otherVars

EditorDelete(target, deletable) ==
    LET dice == cache[FindIndexById(cache, cache[target].id)] IN
    /\ sync.pc # "returned"
    /\ edits < MaxEdits
    /\ cache' = WithoutId(cache, dice.id)
    /\ fs' = IF Truthy(dice.slug) THEN DeleteFolders(fs, dice.slug, deletable) ELSE fs
    /\ editor' = [die |-> EditingOf(dice), open |-> FALSE, outcome |-> "Deleted"]
    /\ quiet' = FALSE
    /\ prevRun' = NoRun
    /\ edits' = edits + 1
    /\ ledger' = [saved |-> ledger.saved \ {dice.id},
                  deleted |-> ledger.deleted \cup {EditingOf(dice)}]
    /\ UNCHANGED <<nextId, diceDefinitions, terms, ekdDiceTypes, sync>>
    /\ UNCHANGED faceVars
    /\ UNCHANGED otherVars

(***************************************************************************)
(* The dice folders change: a folder or its dice.json is put, replaced or  *)
(* taken away by hand or by an import.                                     *)
(***************************************************************************)
FsChange(dir, content) ==
    /\ sync.pc # "returned"
    /\ edits < MaxEdits
    /\ content # fs[dir]
    /\ fs' = [fs EXCEPT ![dir] = content]
    /\ edits' = edits + 1
    /\ quiet' = FALSE
    /\ prevRun' = NoRun
    /\ editor' = Settled(editor)
    /\ UNCHANGED <<cache, nextId, diceDefinitions, terms, ekdDiceTypes, sync>>
    /\ UNCHANGED faceVars
    /\ UNCHANGED auxVars

(***************************************************************************)
(* syncDiceFromFilesystem and its callers                                  *)
(***************************************************************************)
SyncCalled(caller) ==
    [pc |-> "called", caller |-> caller, read |-> <<>>, fsDefinitions |-> <<>>,
     warnings |-> <<>>, cachedDefs |-> <<>>, changed |-> FALSE, definitions |-> <<>>]

SyncIdle == [SyncCalled("ready") EXCEPT !.pc = "idle"]

\* the Refresh button of the settings panel
Refresh ==
    /\ sync.pc = "idle"
    /\ sync' = SyncCalled("refresh")
    /\ quiet' = TRUE
    /\ editor' = Settled(editor)
    /\ UNCHANGED <<fs, cache, nextId, diceDefinitions, terms, ekdDiceTypes, prevRun,
                   edits>>
    /\ UNCHANGED faceVars
    /\ UNCHANGED auxVars

\* lines 419-473: the folders are browsed and every dice.json is read
SyncScan ==
    /\ sync.pc = "called"
    /\ sync' = [sync EXCEPT !.pc = "scanned",
                            !.read = Scan(fs).read,
                            !.fsDefinitions = Scan(fs).defs,
                            !.warnings = Scan(fs).warnings]
    /\ editor' = Settled(editor)
    /\ UNCHANGED <<fs, cache, nextId, diceDefinitions, terms, ekdDiceTypes, prevRun,
                   quiet, edits>>
    /\ UNCHANGED faceVars
    /\ UNCHANGED auxVars

\* lines 475-518: the cache is read and compared; a change is sent to the
\* settings storage, no change returns at once
SyncCompare ==
    LET outcome == Compare(sync.fsDefinitions, cache, nextId) IN
    /\ sync.pc = "scanned"
    /\ outcome.nextId <= MaxIds
    /\ nextId' = outcome.nextId
    /\ sync' = [sync EXCEPT !.pc = IF outcome.changed THEN "writing" ELSE "returned",
                            !.cachedDefs = cache,
                            !.changed = outcome.changed,
                            !.definitions = outcome.definitions]
    /\ editor' = Settled(editor)
    /\ UNCHANGED <<fs, cache, diceDefinitions, terms, ekdDiceTypes, prevRun, quiet,
                   edits>>
    /\ UNCHANGED faceVars
    /\ UNCHANGED auxVars

\* the await of game.settings.set resumes: the cache holds newDefs and the
\* function returns
SyncWriteSkipped ==
    /\ sync.pc = "writing"
    /\ sync' = [sync EXCEPT !.pc = "returned"]
    /\ editor' = Settled(editor)
    /\ UNCHANGED <<fs, cache, nextId, diceDefinitions, terms, ekdDiceTypes, prevRun,
                   quiet, edits>>
    /\ UNCHANGED faceVars
    /\ UNCHANGED auxVars

SyncWrite ==
    /\ sync.pc = "writing"
    /\ cache' = sync.definitions
    /\ sync' = [sync EXCEPT !.pc = "returned"]
    /\ editor' = Settled(editor)
    /\ UNCHANGED <<fs, nextId, diceDefinitions, terms, ekdDiceTypes, prevRun, quiet,
                   edits>>
    /\ UNCHANGED faceVars
    /\ UNCHANGED auxVars

\* the caller's .then(({ changed, definitions }) => ...) of the "ready"
\* hook and of the Refresh handler
SyncDeliver ==
    /\ sync.pc = "returned"
    /\ IF sync.changed THEN registerDiceOnTheFly(sync.definitions)
       ELSE UNCHANGED <<diceDefinitions, terms, ekdDiceTypes>>
    /\ sync' = SyncIdle
    /\ prevRun' = IF quiet
                   THEN [valid |-> TRUE, changed |-> sync.changed,
                         definitions |-> sync.definitions]
                   ELSE NoRun
    /\ editor' = Settled(editor)
    /\ UNCHANGED <<fs, cache, nextId, quiet, edits>>
    /\ UNCHANGED faceVars
    /\ UNCHANGED auxVars

\* the page is (re)loaded: the "init" hook registers the cached dice, the
\* "ready" hook calls syncDiceFromFilesystem
Reload ==
    /\ sync.pc = "idle"
    /\ diceDefinitions' = RegistryOf(cache, EmptyRegistry)
    /\ terms' = HostTerms \cup TermKeys(DenomsOf(cache))
    /\ ekdDiceTypes' = {}
    /\ sync' = SyncCalled("ready")
    /\ quiet' = TRUE
    /\ editor' = EditorClosed
    /\ dsn' = DsnOff
    /\ importer' = ImporterClosed
    /\ sync2' = Sync2Idle
    /\ UNCHANGED <<fs, cache, nextId, prevRun, edits, ledger>>
    /\ UNCHANGED faceVars

\* the state after construction, common to both program specifications
Constructed ==
    /\ faceMap = <<Face(Null)>>
    /\ lastCall = NoCall
    /\ edits = 0
    /\ cache = <<>>
    /\ nextId = 0
    /\ diceDefinitions = EmptyRegistry
    /\ terms = HostTerms
    /\ ekdDiceTypes = {}
    /\ sync = SyncCalled("ready")
    /\ prevRun = NoRun
    /\ quiet = TRUE
    /\ editor = EditorClosed
    /\ AuxAtRest

\* the reconciler's steps and its callers
SyncNext ==
    \/ Refresh
    \/ SyncScan
    \/ SyncCompare
    \/ SyncWrite
    \/ SyncDeliver
    \/ Reload

(***************************************************************************)
(* Spec: the world starts without dice folders; the folders change, dice   *)
(* are saved in the editor and the reconciler runs.                        *)
(***************************************************************************)
Init ==
    /\ Constructed
    /\ fs \in [AllDirs -> {Absent}]

Next ==
    \/ \E dir \in AllDirs : \E content \in FileContents(dir) : FsChange(dir, content)
    \/ \E target \in 0..Len(cache) : \E name \in EditorNames :
         \E denomination \in EditorDenoms : \E rawMap \in EditorFaceMaps :
            EditorSave(target, name, denomination, rawMap)
    \/ SyncNext

Spec == Init /\ [][Next]_vars

(***************************************************************************)
(* SpecEditor: the dice folders are as found when the world is loaded; the *)
(* user works in the configuration window (submits the form, deletes dice) *)
(* and the reconciler runs.                                                *)
(***************************************************************************)
\* the dice folders found when the world is first loaded: none, or a die
\* shipped with the module together with a copy of its folder, under another
\* name and with another denomination, in the user directory
InitialFolders ==
    {[d \in AllDirs |-> Absent],
     [d \in AllDirs |->
         IF d = Dir(ModuleRoot, SlugB) THEN Json(FileDef(d, "x", Some(FileId)))
         ELSE IF d = Dir(UserRoot, SlugA) THEN Json(FileDef(d, "y", Some(FileId)))
         ELSE Absent]}

EditorInit ==
    /\ Constructed
    /\ fs \in InitialFolders

EditorNext ==
    \/ \E target \in 0..Len(cache) : \E name \in EditorNames :
         \E denomination \in EditorDenoms : \E rawMap \in EditorFaceMaps :
            EditorSave(target, name, denomination, rawMap)
    \/ \E target \in 0..Len(cache) : \E name \in EditorNames :
         \E denomination \in EditorDenoms : \E rawMap \in EditorFaceMaps :
            EditorReject(target, name, denomination, rawMap)
    \/ \E target \in 1..Len(cache) : \E name \in EditorNames :
         \E denomination \in EditorDenoms : \E rawMap \in EditorFaceMaps :
            EditorNoChanges(target, name, denomination, rawMap)
    \/ \E target \in 1..Len(cache) : \E deletable \in SUBSET {ModuleRoot, UserRoot} :
            EditorDelete(target, deletable)
    \/ SyncNext

SpecEditor == EditorInit /\ [][EditorNext]_vars


(***************************************************************************)
(* The reference graph of a face map, stated independently of the walk:    *)
(* there is an edge i -> j when face i exists, lies in the array and has   *)
(* refFace = j.                                                            *)
(***************************************************************************)
Edge(fm, i, j) ==
    /\ i >= 0 /\ i < Len(fm)
    /\ ~fm[i + 1].missing
    /\ fm[i + 1].refFace = Some(j)

Successors(fm, S) == {j \in -1..Len(fm) : \E i \in S : Edge(fm, i, j)}

RECURSIVE Closure(_, _, _)
Closure(fm, S, n) ==
    IF n = 0 THEN S ELSE Closure(fm, S \cup Successors(fm, S), n - 1)

\* indices reached from a in zero or more steps / in one or more steps
ReachStar(fm, a) == Closure(fm, {a}, Len(fm) + 1)
ReachPlus(fm, a) == Closure(fm, Successors(fm, {a}), Len(fm) + 1)

OnCycle(fm, i) == i \in ReachPlus(fm, i)

Concrete(fm, k) ==
    k >= 0 /\ k < Len(fm) /\ ~fm[k + 1].missing /\ fm[k + 1].refFace = Null

\* every face is an object, every reference is in range, no chain revisits an index
WellFormed(fm) ==
    /\ \A i \in 0..(Len(fm) - 1) :
          /\ ~fm[i + 1].missing
          /\ fm[i + 1].refFace # Null => fm[i + 1].refFace[1] \in 0..(Len(fm) - 1)
    /\ \A i \in 0..(Len(fm) - 1) : ~OnCycle(fm, i)

ConcreteTargets(fm, i) == {k \in ReachStar(fm, i) : Concrete(fm, k)}

\* C1: on a well-formed (in-range, acyclic) face map, resolveFace(faces, i)
\* returns for every i in 0..N-1 the one concrete face that the refFace
\* pointers lead to from i; a face without refFace resolves to itself.
C1_ResolvesToConcrete ==
    (/\ lastCall.op = "resolveFace"
     /\ lastCall.index # Null
     /\ lastCall.index[1] \in 0..(Len(faceMap) - 1)
     /\ WellFormed(faceMap))
    => LET i == lastCall.index[1] IN
       /\ Cardinality(ConcreteTargets(faceMap, i)) = 1
       /\ lastCall.face # Null
       /\ lastCall.face[1] \in ConcreteTargets(faceMap, i)
       /\ Concrete(faceMap, i) => lastCall.face = Some(i)

\* the spec's example: [{concrete}, {ref:0}, {ref:1}], face 2 resolves to face 0 in two hops
C1_Witness ==
    /\ faceMap = <<Face(Null), Face(Some(0)), Face(Some(1))>>
    /\ lastCall.op = "resolveFace"
    /\ lastCall.index = Some(2)
    /\ lastCall.face = Some(0)
    /\ lastCall.hops = 2

\* C2: for every index i that lies on a reference cycle (a self-reference
\* included), resolveFace(faces, i) terminates and returns null.
C2_CycleIsNotResolvable ==
    (/\ lastCall.op = "resolveFace"
     /\ lastCall.index # Null
     /\ OnCycle(faceMap, lastCall.index[1]))
    => lastCall.face = Null

\* the spec's example [{ref:1}, {ref:0}] resolved at index 0
C2_Witness ==
    /\ faceMap = <<Face(Some(1)), Face(Some(0))>>
    /\ lastCall.op = "resolveFace"
    /\ lastCall.index = Some(0)
    /\ lastCall.face = Null

Returned == sync.pc = "returned"

SlugsOf(defs) == {defs[i].slug : i \in 1..Len(defs)}
IdsOf(defs) == {defs[i].id : i \in 1..Len(defs)}

\* the cached entries a folder name stands for
CachedWithSlug(slug) ==
    {i \in 1..Len(sync.cachedDefs) :
        Truthy(sync.cachedDefs[i].slug) /\ sync.cachedDefs[i].slug = slug}

\* C4: idempotence. When a sync returns and the previous sync was called,
\* ran and returned with no change of the folders or of the cache by the
\* user since, the second run reports changed = false and returns the same
\* definitions list, ids included, as the first.
C4_Idempotent ==
    (Returned /\ prevRun.valid)
    => /\ ~sync.changed
       /\ sync.definitions = prevRun.definitions

\* a first run that found new dice and wrote the cache, then a second run
C4_Witness ==
    /\ Returned
    /\ prevRun.valid
    /\ prevRun.changed
    /\ Len(prevRun.definitions) > 0
    /\ ~sync.changed
    /\ sync.definitions = prevRun.definitions

\* C5 as stated: of two scanned definitions with the same denomination the
\* second in scan order is skipped, the first is kept unchanged in the
\* result, and a conflict warning names both.
C5_SecondAlwaysSkipped ==
    Returned
    => \A i, j \in 1..Len(sync.read) :
          (i < j /\ sync.read[i].denomination = sync.read[j].denomination)
          => /\ \A k \in 1..Len(sync.fsDefinitions) : sync.fsDefinitions[k] # sync.read[j]
             /\ \E k \in 1..Len(sync.fsDefinitions) : sync.fsDefinitions[k] = sync.read[i]
             /\ \E w \in 1..Len(sync.warnings) :
                   /\ sync.warnings[w].name = sync.read[j].name
                   /\ sync.warnings[w].existing = sync.read[i].name

\* C5 (amended): of two scanned definitions with different slugs and the
\* same denomination, where the first in scan order is kept in the result,
\* the second is skipped entirely, and a conflict warning names both.
C5_SecondSkippedWhenFirstKept ==
    Returned
    => \A i, j \in 1..Len(sync.read) :
          (/\ i < j
           /\ sync.read[i].denomination = sync.read[j].denomination
           /\ sync.read[i].slug # sync.read[j].slug
           /\ \E k \in 1..Len(sync.fsDefinitions) : sync.fsDefinitions[k] = sync.read[i])
          => /\ \A k \in 1..Len(sync.fsDefinitions) : sync.fsDefinitions[k] # sync.read[j]
             /\ \E w \in 1..Len(sync.warnings) :
                   /\ sync.warnings[w].name = sync.read[j].name
                   /\ sync.warnings[w].existing = sync.read[i].name
                   /\ sync.warnings[w].denom = sync.read[j].denomination

\* folders a and b of the user directory both claim "x": a is kept, b is skipped
C5_Witness ==
    /\ Returned
    /\ Len(sync.read) = 2
    /\ sync.read[1].denomination = sync.read[2].denomination
    /\ sync.read[1].slug # sync.read[2].slug
    /\ sync.fsDefinitions = <<sync.read[1]>>
    /\ Len(sync.warnings) = 1

\* C6: a scanned definition whose slug is not in the cache makes the sync
\* report changed = true, and its entry in the returned definitions has an
\* id that no cached definition and no other returned definition carries.
C6_NewEntryHasFreshId ==
    Returned
    => \A k \in 1..Len(sync.fsDefinitions) :
          CachedWithSlug(sync.fsDefinitions[k].slug) = {}
          => /\ sync.changed
             /\ sync.definitions[k].slug = sync.fsDefinitions[k].slug
             /\ sync.definitions[k].id # Null
             /\ sync.definitions[k].id \notin IdsOf(sync.cachedDefs)
             /\ \A m \in 1..Len(sync.definitions) :
                   m # k => sync.definitions[m].id # sync.definitions[k].id

\* C7: a cached entry for whose folder name the scan read no definition is
\* absent from the returned definitions, and the sync reports changed = true.
C7_RemovalDetected ==
    Returned
    => \A i \in 1..Len(sync.cachedDefs) :
          (/\ Truthy(sync.cachedDefs[i].slug)
           /\ sync.cachedDefs[i].slug \notin SlugsOf(sync.read))
          => /\ sync.changed
             /\ sync.cachedDefs[i].slug \notin SlugsOf(sync.definitions)

\* a die that a sync had put in the cache lost its folder; other dice remain
C7_Witness ==
    /\ Returned
    /\ sync.changed
    /\ \E i \in 1..Len(sync.cachedDefs) :
          /\ Truthy(sync.cachedDefs[i].slug)
          /\ sync.cachedDefs[i].id = Some(FileId)
          /\ sync.cachedDefs[i].slug \notin SlugsOf(sync.read)
          /\ sync.cachedDefs[i].slug \notin SlugsOf(sync.definitions)

\* C8: for every slug found both by the scan and in the cache, the
\* returned definition carries the id of the cached entry (of the one the
\* lookup by slug yields, the last with that slug), whatever the file says.
C8_IdCarriedOver ==
    Returned
    => \A k \in 1..Len(sync.fsDefinitions) :
          LET known == CachedWithSlug(sync.fsDefinitions[k].slug) IN
          known # {}
          => /\ sync.definitions[k].slug = sync.fsDefinitions[k].slug
             /\ \E i \in known :
                   /\ sync.definitions[k].id = sync.cachedDefs[i].id
                   /\ \A m \in known : m <= i

\* the file now records an id of its own and another denomination, the
\* definition keeps the random id it got when it entered the cache
C8_Witness ==
    /\ Returned
    /\ sync.changed
    /\ \E k \in 1..Len(sync.fsDefinitions) :
          /\ sync.fsDefinitions[k].id = Some(FileId)
          /\ sync.definitions[k].id = Some(RandomId(1))
          /\ \E i \in CachedWithSlug(sync.fsDefinitions[k].slug) :
                /\ sync.cachedDefs[i].id = Some(RandomId(1))
                /\ sync.cachedDefs[i].denomination # sync.definitions[k].denomination

\* C9: when the call returns changed = true, the cache already holds
\* exactly the returned definitions; registerDiceOnTheFly has not run yet.
C9_CacheWrittenBeforeReturn ==
    (Returned /\ sync.changed) => cache = sync.definitions

C9_Witness ==
    /\ Returned
    /\ sync.changed
    /\ Len(sync.definitions) > 0
    /\ cache = sync.definitions
    /\ DOMAIN diceDefinitions = {}

\* C10: after every completed run, changed or not, the cache holds exactly
\* the definitions that the run returns.
C10_CacheInSyncAfterRun ==
    Returned => cache = sync.definitions

(***************************************************************************)
(* Invariants of the definition cache                                      *)
(***************************************************************************)
\* C11: no two definitions in the cache have the same denomination.
C11_DenominationsUnique ==
    \A i, j \in 1..Len(cache) :
        i # j => cache[i].denomination # cache[j].denomination

\* C12: no two definitions in the cache have the same slug.
C12_SlugsUnique ==
    \A i, j \in 1..Len(cache) : i # j => cache[i].slug # cache[j].slug

\* the denominations the host itself has registered
HostDenoms == {k[2] : k \in HostTerms}

\* C13: every definition in the cache, however it entered, has a
\* denomination that no host die type and no other cached definition uses.
C13_DenominationUniqueAmongAll ==
    \A i \in 1..Len(cache) :
        /\ cache[i].denomination \notin HostDenoms
        /\ \A j \in 1..Len(cache) :
              j # i => cache[j].denomination # cache[i].denomination

(***************************************************************************)
(* Properties of the editor, read off the step that handles a submit or a  *)
(* delete: editor'.outcome is what that step notified                      *)
(***************************************************************************)
ValidationErrors ==
    {"NameRequired", "NameConflict", "DenominationRequired", "DenominationLength",
     "DenominationReserved", "DenominationConflict", "FaceRefLoop"}

\* the place in the cache of the die the window handled
SavedAt(defs, e) == FindIndexById(defs, e.die.id)

\* C14: a submit that fails a check (empty or duplicate name, empty,
\* multi-character, reserved or duplicate denomination, unresolvable face
\* reference) writes neither the cache nor the dice folders, and the die
\* stays open in the editor.
C14_RejectedSaveWritesNothing ==
    [][editor'.outcome \in ValidationErrors
       => /\ cache' = cache
          /\ fs' = fs
          /\ editor'.open
          /\ editor'.die # NoDie]_vars

\* an edit of a cached die is refused because another die has the denomination
C14_Witness ==
    /\ editor.outcome = "DenominationConflict"
    /\ editor.open
    /\ Len(cache) = 2
    /\ editor.die.id \in IdsOf(cache)

\* C15: the definition that a successful save writes has every reference
\* in range, no reference cycle, and every face of it resolves.
C15_SavedFacesResolve ==
    [][editor'.outcome = "DiceSaved"
       => LET idx == SavedAt(cache', editor')
          IN /\ idx > 0
             /\ WellFormed(cache'[idx].faceMap)
             /\ \A i \in 0..(Len(cache'[idx].faceMap) - 1) :
                   resolveFace(cache'[idx].faceMap, Some(i)) # Null]_vars

\* a die with a face that refers to another face has been saved
C15_Witness ==
    /\ editor.outcome = "DiceSaved"
    /\ SavedAt(cache, editor) > 0
    /\ \E i \in 1..Len(cache[SavedAt(cache, editor)].faceMap) :
          cache[SavedAt(cache, editor)].faceMap[i].refFace # Null

\* C16: after a successful save no other cached definition has the name of
\* the saved one, compared after trimming and without regard to case.
C16_SaveKeepsNamesDistinct ==
    [][editor'.outcome = "DiceSaved"
       => LET idx == SavedAt(cache', editor')
          IN \A j \in 1..Len(cache') :
                j # idx => ToLowerCase(Trim(cache'[j].name))
                              # ToLowerCase(Trim(cache'[idx].name))]_vars

Readable(file) ==
    /\ file.kind = "json"
    /\ file.def.name # <<>>
    /\ file.def.denomination # ""
    /\ HasKey(file.def, "faceMap")

\* C18: the scan step is taken whatever the folders hold, and what it read
\* is one definition for every folder with a readable dice.json: missing
\* folders, folders without dice.json and unreadable or incomplete files
\* are passed over and the folders after them are still read.
C18_ScanSkipsUnreadable ==
    [][(sync.pc = "called" /\ sync'.pc = "scanned")
       => /\ Len(sync'.read) = Cardinality({d \in AllDirs : Readable(fs[d])})
          /\ \A d \in AllDirs :
                Readable(fs[d])
                => \E k \in 1..Len(sync'.read) :
                      /\ sync'.read[k].slug = Some(d.slug)
                      /\ sync'.read[k].name = fs[d].def.name]_vars

\* the module folder holds an unreadable dice.json, the first user folder
\* none at all; the die of the second user folder has been read
C18_Witness ==
    /\ sync.pc = "scanned"
    /\ quiet
    /\ fs[Dir(ModuleRoot, SlugB)].kind = "garbage"
    /\ fs[Dir(UserRoot, SlugA)].kind = "absent"
    /\ Readable(fs[Dir(UserRoot, SlugB)])
    /\ Len(sync.read) = 1
    /\ sync.read[1].slug = Some(SlugB)

\* C19: a confirmed delete removes every entry with the id of the die from
\* the cache and leaves the others as they are, whether or not the dice
\* folders could be deleted.
C19_DeleteAlwaysProceeds ==
    [][editor'.outcome = "Deleted"
       => /\ editor'.die.id \notin IdsOf(cache')
          /\ Len(cache') < Len(cache)
          /\ cache' = WithoutId(cache, editor'.die.id)]_vars

\* the die is gone from the cache, its folder with its dice.json is still there
C19_Witness ==
    /\ editor.outcome = "Deleted"
    /\ Truthy(editor.die.slug)
    /\ editor.die.id \notin IdsOf(cache)
    /\ \E d \in AllDirs : Some(d.slug) = editor.die.slug /\ fs[d].kind = "json"

\* C20: on every face sequence of length N, malformed or not, resolveFace
\* returns after following at most N references.
C20_AtMostNReferences ==
    lastCall.op = "resolveFace" => lastCall.hops <= Len(faceMap)

\* a cycle through all three faces: three references are followed, then the
\* start is met again
C20_Witness ==
    /\ faceMap = <<Face(Some(1)), Face(Some(2)), Face(Some(0))>>
    /\ lastCall.op = "resolveFace"
    /\ lastCall.index = Some(0)
    /\ lastCall.hops = 3
    /\ lastCall.face = Null

(***************************************************************************)
(* SpecDsn: the 3D dice.  The renderer announces itself ("diceSoNiceReady") *)
(* while or after the startup sync runs; afterwards it creates dice.        *)
(***************************************************************************)
\* the die types the renderer is asked for and the systems the user can
\* select in the renderer's settings
DieTypes == {"x", "y", "z"}
UserSystems == {"standard", "dot"}

\* the hook up to its first await: _ekdDiceTypes gets the cached dice
DiceSoNiceReady ==
    /\ dsn.pc = "off"
    /\ ekdDiceTypes' = ekdDiceTypes \cup DenomsOf(cache)
    /\ dsn' = [dsn EXCEPT !.pc = "browsing"]
    /\ editor' = Settled(editor)
    /\ UNCHANGED <<fs, cache, nextId, diceDefinitions, terms, sync, prevRun, quiet,
                   edits>>
    /\ UNCHANGED <<ledger, importer, sync2>>
    /\ UNCHANGED faceVars

\* the hook after the geometries folder was browsed: DiceFactory.create is
\* wrapped if _ekdDiceTypes.size > 0 || denomToGeo.size > 0 (no die of the
\* model has a custom geometry, so denomToGeo is empty)
DsnPatch ==
    /\ dsn.pc = "browsing"
    /\ dsn' = [dsn EXCEPT !.pc = "done", !.patched = (ekdDiceTypes # {})]
    /\ editor' = Settled(editor)
    /\ UNCHANGED <<fs, cache, nextId, diceDefinitions, terms, ekdDiceTypes, sync,
                   prevRun, quiet, edits>>
    /\ UNCHANGED <<ledger, importer, sync2>>
    /\ UNCHANGED faceVars

\* factory.create(t, i, r) with i the die type and r the appearance, which
\* carries the system the user selected
CreateSystem(patched, owned, selected) ==
    IF patched /\ owned THEN "ekd" ELSE selected

CreateDie(type, selected) ==
    /\ dsn.pc = "done"
    /\ sync.pc # "returned"
    /\ dsn' = [dsn EXCEPT !.created =
                  [type |-> type, owned |-> type \in ekdDiceTypes,
                   system |-> CreateSystem(dsn.patched, type \in ekdDiceTypes, selected)]]
    /\ editor' = Settled(editor)
    /\ UNCHANGED <<fs, cache, nextId, diceDefinitions, terms, ekdDiceTypes, sync,
                   prevRun, quiet, edits>>
    /\ UNCHANGED <<ledger, importer, sync2>>
    /\ UNCHANGED faceVars

DsnNext ==
    \/ DiceSoNiceReady
    \/ DsnPatch
    \/ \E type \in DieTypes : \E selected \in UserSystems : CreateDie(type, selected)
    \/ SyncNext

SpecDsn == EditorInit /\ [][DsnNext]_vars

(***************************************************************************)
(* importDice and validateZipContents.  An archive is the sequence of its  *)
(* entries in the order of Object.keys(entries); a path is the sequence of *)
(* its folders and its file name.                                          *)
(***************************************************************************)
Entry(folders, file, content) == [folders |-> folders, file |-> file, content |-> content]

\* a dice.json whose text is the JSON value null, and a file that is not a dice.json
JsonNull == [kind |-> "null", def |-> NoDef]
Asset == [kind |-> "asset", def |-> NoDef]

Zip(entries) == [readable |-> TRUE, entries |-> entries]

\* entries[expectedKey] is there
HasEntry(entries, folders, file) ==
    \E i \in 1..Len(entries) : entries[i].folders = folders /\ entries[i].file = file

\* every texture a face names is in the archive below the prefix
AssetsPresent(entries, prefix, fm) ==
    \A i \in 1..Len(fm) :
        fm[i].texture.file # "" => HasEntry(entries, prefix, fm[i].texture.file)

\* error "TypeError" stands for the exception `def.name` raises when the text
\* parses to null: no result is returned
validateZipContents(entries) ==
    LET found == SelectSeq(entries, LAMBDA e : e.file = "dice.json" /\ Len(e.folders) + 1 <= 2)
        failed(error) == [ok |-> FALSE, error |-> error, slug |-> <<>>, def |-> NoDef,
                          prefix |-> <<>>]
    IN IF found = <<>> THEN failed("NoDiceJson")
       ELSE LET jsonKey == found[1]
                def == jsonKey.content.def
                prefix == jsonKey.folders
                slug == IF prefix # <<>> THEN prefix[1]
                        ELSE IF Truthy(def.slug) THEN def.slug[1]
                        ELSE ReplaceRuns(ToLowerCase(def.name), FALSE)
            IN IF jsonKey.content.kind = "garbage" THEN failed("InvalidJson")
               ELSE IF jsonKey.content.kind = "null" THEN failed("TypeError")
               ELSE IF def.name = <<>> \/ def.denomination = "" \/ ~HasKey(def, "faceMap")
               THEN failed("MissingFields")
               ELSE IF ~AssetsPresent(entries, prefix, def.faceMap)
               THEN failed("MissingAsset")
               ELSE [ok |-> TRUE, error |-> "", slug |-> slug, def |-> def,
                     prefix |-> prefix]

\* existing.find(d => d.denomination === def.denomination && d.slug !== slug)
ImportConflict(existing, def, slug) ==
    \E i \in 1..Len(existing) :
        existing[i].denomination = def.denomination /\ existing[i].slug # Some(slug)

\* FP.upload of one entry into <user path>/<slug>/<relPath>: the folder exists
\* afterwards, and a file uploaded as its dice.json is its dice.json
UploadEntry(f, e, prefix, slug) ==
    LET relFolders == IF prefix # <<>> /\ Len(e.folders) >= Len(prefix)
                         /\ SubSeq(e.folders, 1, Len(prefix)) = prefix
                      THEN SubSeq(e.folders, Len(prefix) + 1, Len(e.folders))
                      ELSE e.folders
        dest == Dir(UserRoot, slug)
    IN IF dest \notin AllDirs THEN f
       ELSE IF relFolders = <<>> /\ e.file = "dice.json"
       THEN [f EXCEPT ![dest] = [kind |-> e.content.kind, def |-> e.content.def]]
       ELSE IF f[dest].kind = "absent" THEN [f EXCEPT ![dest] = NoFile]
       ELSE f

\* the upload loop over the first k entries
RECURSIVE UploadFirst(_, _, _, _, _)
UploadFirst(f, entries, k, prefix, slug) ==
    IF k = 0 \/ entries = <<>> THEN f
    ELSE UploadFirst(UploadEntry(f, Head(entries), prefix, slug), Tail(entries), k - 1,
                     prefix, slug)

\* what importDice notifies for the archive; "Threw" when the handler is
\* left by an exception without a notification
ImportOutcome(zip, existing, uploaded) ==
    LET result == validateZipContents(zip.entries) IN
    IF ~zip.readable THEN "InvalidZip"
    ELSE IF ~result.ok
    THEN (IF result.error = "TypeError" THEN "Threw" ELSE result.error)
    ELSE IF ImportConflict(existing, result.def, result.slug) THEN "DenomConflict"
    ELSE IF uploaded < Len(zip.entries) THEN "UploadFailed"
    ELSE "Success"

\* the user picks an archive; the server takes the first `uploaded` files
\* and refuses the next one
ImportDice(zip, uploaded) ==
    LET result == validateZipContents(zip.entries)
        outcome == ImportOutcome(zip, cache, uploaded)
    IN /\ sync.pc # "returned"
       /\ edits < MaxEdits
       /\ uploaded \in 0..Len(zip.entries)
       /\ importer' = [zip |-> zip, outcome |-> outcome]
       /\ fs' = IF outcome \in {"UploadFailed", "Success"}
                THEN UploadFirst(fs, zip.entries, uploaded, result.prefix, result.slug)
                ELSE fs
       /\ edits' = edits + 1
       /\ quiet' = FALSE
       /\ prevRun' = NoRun
       /\ editor' = Settled(editor)
       /\ UNCHANGED <<cache, nextId, diceDefinitions, terms, ekdDiceTypes, sync>>
       /\ UNCHANGED <<ledger, dsn, sync2>>
       /\ UNCHANGED faceVars

\* the archives the user picks
ZipDef(slug, denom, id) == FileDef(Dir(UserRoot, slug), denom, id)

ImportZips ==
    {[readable |-> FALSE, entries |-> <<>>],
     Zip(<<Entry(<<>>, "t.png", Asset)>>),
     Zip(<<Entry(<<SlugA, SlugA>>, "dice.json", Json(ZipDef(SlugA, "x", Some(FileId)))),
           Entry(<<SlugA, SlugA>>, "t.png", Asset)>>),
     Zip(<<Entry(<<>>, "dice.json", Garbage)>>),
     Zip(<<Entry(<<>>, "dice.json", JsonNull)>>),
     Zip(<<Entry(<<SlugA>>, "dice.json", Json(ZipDef(SlugA, "", Null))),
           Entry(<<SlugA>>, "t.png", Asset)>>),
     Zip(<<Entry(<<SlugA>>, "dice.json", Json(ZipDef(SlugA, "x", Some(FileId)))),
           Entry(<<>>, "t.png", Asset)>>),
     Zip(<<Entry(<<SlugA>>, "dice.json", Json(ZipDef(SlugA, "x", Some(FileId)))),
           Entry(<<SlugA>>, "t.png", Asset)>>),
     Zip(<<Entry(<<SlugB>>, "t.png", Asset),
           Entry(<<SlugB>>, "dice.json", Json(ZipDef(SlugB, "y", Null)))>>),
     Zip(<<Entry(<<>>, "dice.json", Json(ZipDef(SlugA, "y", Null))),
           Entry(<<>>, "t.png", Asset)>>)}

ImportNext ==
    \/ \E zip \in ImportZips : \E uploaded \in 0..Len(zip.entries) :
         ImportDice(zip, uploaded)
    \/ SyncNext

SpecImport == EditorInit /\ [][ImportNext]_vars

(***************************************************************************)
(* SpecOverlap: the Refresh button is clicked while a call of              *)
(* syncDiceFromFilesystem is still running, so two calls run side by side  *)
(* over folders nobody changes.  A call that has returned hands its result *)
(* to its caller's .then before anything else runs.                        *)
(***************************************************************************)
\* the dice folders: as in InitialFolders; or the shipped die, a user
\* folder with a dice.json written by hand, and a user folder named like the
\* module's whose dice.json claims the denomination of the hand-written one;
\* or the shipped die and a user folder of the same name
OverlapFolders ==
    InitialFolders \cup
    {[d \in AllDirs |->
         IF d = Dir(ModuleRoot, SlugB) THEN Json(FileDef(d, "x", Some(FileId)))
         ELSE IF d = Dir(UserRoot, SlugA) THEN Json(FileDef(d, "y", Null))
         ELSE Json(FileDef(d, "y", Some(FileId)))],
     [d \in AllDirs |->
         IF d = Dir(ModuleRoot, SlugB) THEN Json(FileDef(d, "x", Some(FileId)))
         ELSE IF d = Dir(UserRoot, SlugB) THEN Json(FileDef(d, "y", Some(FileId)))
         ELSE Absent]}

OverlapInit ==
    /\ Constructed
    /\ fs \in OverlapFolders

Refresh2 ==
    /\ sync.pc \in {"called", "scanned", "writing"}
    /\ sync2.pc = "idle"
    /\ sync2' = SyncCalled("refresh")
    /\ editor' = Settled(editor)
    /\ UNCHANGED <<fs, cache, nextId, diceDefinitions, terms, ekdDiceTypes, sync,
                   prevRun, quiet, edits>>
    /\ UNCHANGED <<ledger, dsn, importer>>
    /\ UNCHANGED faceVars

Sync2Scan ==
    /\ sync2.pc = "called"
    /\ sync.pc # "returned"
    /\ sync2' = [sync2 EXCEPT !.pc = "scanned",
                              !.read = Scan(fs).read,
                              !.fsDefinitions = Scan(fs).defs,
                              !.warnings = Scan(fs).warnings]
    /\ editor' = Settled(editor)
    /\ UNCHANGED <<fs, cache, nextId, diceDefinitions, terms, ekdDiceTypes, sync,
                   prevRun, quiet, edits>>
    /\ UNCHANGED <<ledger, dsn, importer>>
    /\ UNCHANGED faceVars

Sync2Compare ==
    LET outcome == Compare(sync2.fsDefinitions, cache, nextId) IN
    /\ sync2.pc = "scanned"
    /\ sync.pc # "returned"
    /\ outcome.nextId <= MaxIds
    /\ nextId' = outcome.nextId
    /\ sync2' = [sync2 EXCEPT !.pc = IF outcome.changed THEN "writing" ELSE "returned",
                              !.cachedDefs = cache,
                              !.changed = outcome.changed,
                              !.definitions = outcome.definitions]
    /\ editor' = Settled(editor)
    /\ UNCHANGED <<fs, cache, diceDefinitions, terms, ekdDiceTypes, sync, prevRun,
                   quiet, edits>>
    /\ UNCHANGED <<ledger, dsn, importer>>
    /\ UNCHANGED faceVars

Sync2Write ==
    /\ sync2.pc = "writing"
    /\ sync.pc # "returned"
    /\ cache' = sync2.definitions
    /\ sync2' = [sync2 EXCEPT !.pc = "returned"]
    /\ editor' = Settled(editor)
    /\ UNCHANGED <<fs, nextId, diceDefinitions, terms, ekdDiceTypes, sync, prevRun,
                   quiet, edits>>
    /\ UNCHANGED <<ledger, dsn, importer>>
    /\ UNCHANGED faceVars

\* the second call's result stays on record until the next sync is started
Sync2Deliver ==
    /\ sync2.pc = "returned"
    /\ IF sync2.changed THEN registerDiceOnTheFly(sync2.definitions)
       ELSE UNCHANGED <<diceDefinitions, terms, ekdDiceTypes>>
    /\ sync2' = [sync2 EXCEPT !.pc = "done"]
    /\ editor' = Settled(editor)
    /\ UNCHANGED <<fs, cache, nextId, sync, prevRun, quiet, edits>>
    /\ UNCHANGED <<ledger, dsn, importer>>
    /\ UNCHANGED faceVars

\* the Refresh button when no call is running
RefreshAgain ==
    /\ sync.pc = "idle"
    /\ sync2.pc \in {"idle", "done"}
    /\ sync' = SyncCalled("refresh")
    /\ sync2' = Sync2Idle
    /\ quiet' = TRUE
    /\ editor' = Settled(editor)
    /\ UNCHANGED <<fs, cache, nextId, diceDefinitions, terms, ekdDiceTypes, prevRun,
                   edits>>
    /\ UNCHANGED <<ledger, dsn, importer>>
    /\ UNCHANGED faceVars

OverlapNext ==
    \/ sync2.pc # "returned" /\ SyncScan
    \/ sync2.pc # "returned" /\ SyncCompare
    \/ sync2.pc # "returned" /\ SyncWrite
    \/ SyncDeliver
    \/ Refresh2
    \/ Sync2Scan
    \/ Sync2Compare
    \/ Sync2Write
    \/ Sync2Deliver
    \/ RefreshAgain

SpecOverlap == OverlapInit /\ [][OverlapNext]_vars

(***************************************************************************)
(* Further properties of the resolver                                      *)
(***************************************************************************)
\* the chain from index a leaves the array or meets a slot without a face
BrokenChain(fm, a) ==
    \E k \in ReachStar(fm, a) : k < 0 \/ k >= Len(fm) \/ fm[k + 1].missing

\* C21: resolveFace returns null when the starting index is null, negative
\* or not below N, and when the chain from it reaches an index outside
\* 0..N-1 or a missing face.
C21_InvalidChainGivesNull ==
    (/\ lastCall.op = "resolveFace"
     /\ \/ lastCall.index = Null
        \/ BrokenChain(faceMap, lastCall.index[1]))
    => lastCall.face = Null

\* face 0 refers to face 1, face 1 refers to index 3 of a three-face map
C21_Witness ==
    /\ faceMap = <<Face(Some(1)), Face(Some(3)), Face(Null)>>
    /\ lastCall.op = "resolveFace"
    /\ lastCall.index = Some(0)
    /\ lastCall.face = Null
    /\ lastCall.hops = 2

\* the face map after the editor has pointed face i at face j
Assigned(fm, i, j) == [fm EXCEPT ![i + 1].refFace = Some(j)]

AllFacesResolve(fm) ==
    \A k \in 0..(Len(fm) - 1) : resolveFace(fm, Some(k)) # Null

\* C23: on a face map of which every face resolves, a target j other than
\* i for which wouldCreateLoop(faces, N, i, j) is false gives, once face i
\* points at it, a face map of which every face resolves; a target for
\* which it is true makes face i unresolvable.
C23_OfferedTargetsKeepResolvable ==
    (/\ lastCall.op = "wouldCreateLoop"
     /\ lastCall.to # Null
     /\ lastCall.from[1] \in 0..(Len(faceMap) - 1)
     /\ lastCall.to[1] \in 0..(Len(faceMap) - 1)
     /\ lastCall.to # lastCall.from
     /\ AllFacesResolve(faceMap))
    => LET after == Assigned(faceMap, lastCall.from[1], lastCall.to[1]) IN
       IF lastCall.loop THEN resolveFace(after, lastCall.from) = Null
       ELSE AllFacesResolve(after)

\* face 1 refers to face 0; face 2 may be pointed at face 1
C23_Witness ==
    /\ faceMap = <<Face(Null), Face(Some(0)), Face(Null)>>
    /\ lastCall.op = "wouldCreateLoop"
    /\ lastCall.from = Some(2)
    /\ lastCall.to = Some(1)
    /\ ~lastCall.loop

(***************************************************************************)
(* Further properties of the cached definitions                            *)
(***************************************************************************)
\* FACE_OPTIONS, the face counts the editor offers
FaceOptions == {4, 6, 8, 10, 12, 20}

\* C22: every definition in the cache has a face count among 4, 6, 8, 10,
\* 12 and 20, and a face sequence of exactly that length.
C22_FaceCountMatchesFaces ==
    \A i \in 1..Len(cache) :
        /\ cache[i].faces # Null
        /\ cache[i].faces[1] \in FaceOptions
        /\ Len(cache[i].faceMap) = cache[i].faces[1]

(***************************************************************************)
(* Properties of the runtime registry                                      *)
(***************************************************************************)
\* C26: when registerDiceOnTheFly(definitions) returns, _diceDefinitions
\* maps exactly the denominations of the list, the term table has a class
\* entry for each of them, and every denomination registered before the call
\* that is not in the list is gone from the term table and from _ekdDiceTypes.
C26_RegistryMatchesList ==
    [][(sync.pc = "returned" /\ sync.changed /\ sync'.pc = "idle")
       => /\ DOMAIN diceDefinitions' = DenomsOf(sync.definitions)
          /\ \A d \in DenomsOf(sync.definitions) :
                /\ ClassKey(d) \in terms'
                /\ diceDefinitions'[d].denomination = d
          /\ \A d \in DOMAIN diceDefinitions \ DenomsOf(sync.definitions) :
                /\ ClassKey(d) \notin terms'
                /\ DenomKey(d) \notin terms'
                /\ d \notin ekdDiceTypes']_vars

\* a die with denomination "d" was registered and then dropped from the
\* list, which took the term "d" along; the list registered last has "x"
C26_Witness ==
    /\ sync.pc = "idle"
    /\ prevRun.valid
    /\ prevRun.changed
    /\ DenomKey("d") \notin terms
    /\ ClassKey("x") \in terms
    /\ DOMAIN diceDefinitions = {"x"}
    /\ DenomsOf(prevRun.definitions) = {"x"}

(***************************************************************************)
(* Properties of the scan: one folder name in both dice directories        *)
(***************************************************************************)
\* the definitions the scan read for a slug, in scan order (the module's
\* directory is scanned before the user's), and those it kept
ReadOfSlug(slug) == SelectSeq(sync.read, LAMBDA d : d.slug = Some(slug))
KeptOfSlug(slug) == SelectSeq(sync.fsDefinitions, LAMBDA d : d.slug = Some(slug))

\* the scan reported a conflict between def and existing
ReportedBetween(def, existing) ==
    \E i \in 1..Len(sync.warnings) :
        /\ sync.warnings[i].slug = def.slug
        /\ sync.warnings[i].name = def.name
        /\ sync.warnings[i].existing = existing.name

\* the scan skipped def for a denomination conflict
Skipped(def) ==
    \E i \in 1..Len(sync.warnings) :
        sync.warnings[i].slug = def.slug /\ sync.warnings[i].name = def.name

\* C27 as stated: when both dice directories have a folder of the same name
\* (each with a readable definition), the scan result has exactly one
\* definition for that slug, the user directory's, and no conflict is
\* reported between the two.
C27_UserFolderWins ==
    (sync.pc = "scanned" /\ Len(ReadOfSlug(SlugB)) = 2)
    => /\ KeptOfSlug(SlugB) = <<ReadOfSlug(SlugB)[2]>>
       /\ ~ReportedBetween(ReadOfSlug(SlugB)[2], ReadOfSlug(SlugB)[1])

\* C27 (amended): the scan result has at most one definition for that slug:
\* the user directory's unless it was skipped for a denomination conflict
\* with a definition of another slug, in which case the module-shipped one
\* stays (unless skipped too); no conflict is reported between the two.
C27_UserFolderWinsUnlessSkipped ==
    (sync.pc = "scanned" /\ Len(ReadOfSlug(SlugB)) = 2)
    => LET shipped == ReadOfSlug(SlugB)[1]
           users == ReadOfSlug(SlugB)[2]
       IN /\ ~ReportedBetween(users, shipped)
          /\ KeptOfSlug(SlugB) =
                IF ~Skipped(users) THEN <<users>>
                ELSE IF ~Skipped(shipped) THEN <<shipped>>
                ELSE <<>>

\* the user's folder b claims the denomination of the user's folder a and
\* is skipped, the module's folder b stays
C27_Witness ==
    /\ sync.pc = "scanned"
    /\ Len(ReadOfSlug(SlugB)) = 2
    /\ Skipped(ReadOfSlug(SlugB)[2])
    /\ KeptOfSlug(SlugB) = <<ReadOfSlug(SlugB)[1]>>
    /\ ReadOfSlug(SlugB)[1].name = FileName(Dir(ModuleRoot, SlugB))

(***************************************************************************)
(* Properties of what the user did in the configuration window             *)
(***************************************************************************)
\* a sync called after everything the user did writes the cache
LaterSyncWrites == quiet /\ sync.pc = "writing" /\ sync'.pc = "returned"

\* C24: a die saved through the editor stays in the cache across every
\* later sync, as long as nobody deletes it.
C24_SavedDieStaysCached ==
    [][LaterSyncWrites
       => \A id \in ledger.saved \cap IdsOf(cache) : id \in IdsOf(cache')]_vars

\* C25: a die deleted in the configuration window is absent from the cache
\* after every later sync, whether or not its folder could be deleted.
C25_DeletedDieStaysAway ==
    [][LaterSyncWrites
       => \A i \in 1..Len(cache') :
             EditingOf(cache'[i]) \in ledger.deleted
             => \E j \in 1..Len(cache) : EditingOf(cache[j]) = EditingOf(cache'[i])]_vars

(***************************************************************************)
(* Properties of the 3D dice                                               *)
(***************************************************************************)
\* C28: every 3D die created for a type in _ekdDiceTypes is created with
\* system "ekd", whatever system the user selected, also when the type was
\* registered by a sync that completed after diceSoNiceReady ran.
C28_OwnedDiceUseEkdSystem ==
    dsn.created.owned => dsn.created.system = "ekd"

(***************************************************************************)
(* Properties of the import                                                *)
(***************************************************************************)
\* the errors importDice notifies before it uploads
ImportErrors ==
    {"InvalidZip", "NoDiceJson", "InvalidJson", "MissingFields", "MissingAsset",
     "DenomConflict"}

\* the conditions of C29 on an archive, given the cached dice
ImportAllowed(zip, existing) ==
    /\ zip.readable
    /\ \E i \in 1..Len(zip.entries) :
          /\ zip.entries[i].file = "dice.json"
          /\ Len(zip.entries[i].folders) <= 1
          /\ \A j \in 1..(i - 1) :
                ~(zip.entries[j].file = "dice.json" /\ Len(zip.entries[j].folders) <= 1)
          /\ LET e == zip.entries[i]
                 def == e.content.def
                 slug == IF e.folders # <<>> THEN e.folders[1]
                         ELSE IF Truthy(def.slug) THEN def.slug[1]
                         ELSE ReplaceRuns(ToLowerCase(def.name), FALSE)
             IN /\ e.content.kind = "json"
                /\ def.name # <<>>
                /\ def.denomination # ""
                /\ HasKey(def, "faceMap")
                /\ \A k \in 1..Len(def.faceMap) :
                      def.faceMap[k].texture.file # ""
                      => \E a \in 1..Len(zip.entries) :
                            /\ zip.entries[a].folders = e.folders
                            /\ zip.entries[a].file = def.faceMap[k].texture.file
                /\ \A c \in 1..Len(existing) :
                      existing[c].denomination = def.denomination
                      => existing[c].slug = Some(slug)

\* C29: importDice uploads no file unless the archive has a dice.json at its
\* root or one folder deep that parses, has name, denomination and a faceMap
\* array, every referenced asset is in the archive, and no cached die with
\* another slug uses the denomination; otherwise it reports an error and
\* leaves the dice folders and the cache unchanged.
C29_ImportValidatesBeforeUpload ==
    [][edits' # edits
       => LET zip == importer'.zip IN
          /\ (fs' # fs \/ importer'.outcome \in {"UploadFailed", "Success"})
             => ImportAllowed(zip, cache)
          /\ ~ImportAllowed(zip, cache)
             => /\ importer'.outcome \in ImportErrors
                /\ fs' = fs
                /\ cache' = cache]_vars

(***************************************************************************)
(* Properties of overlapping reconciler runs                               *)
(***************************************************************************)
\* what the first of the two overlapping calls returned, once it has
FirstResult ==
    IF sync.pc = "returned" THEN Some(sync.definitions)
    ELSE IF sync.pc = "idle" /\ prevRun.valid THEN Some(prevRun.definitions)
    ELSE Null

\* C30: two overlapping syncs over the same unchanged folders return the
\* same definitions with the same ids, and afterwards the cache and
\* _diceDefinitions hold the same definitions.
C30_OverlappingRunsAgree ==
    /\ (sync2.pc \in {"returned", "done"} /\ FirstResult # Null)
       => sync2.definitions = FirstResult[1]
    /\ (sync2.pc = "done" /\ sync.pc = "idle")
       => {cache[i] : i \in 1..Len(cache)}
          = {diceDefinitions[d] : d \in DOMAIN diceDefinitions}

====
